---------------------------- MODULE Spec2Model ----------------------------
(***************************************************************************)
(* Model of theia-extensions/zones/scripts/cut-geocache-icons.py: one      *)
(* sequential process that checks for Pillow, checks that the sprite sheet *)
(* exists, creates the output directory, opens the sprite, crops and saves *)
(* the 16 icons of ICONS and prints a summary.                             *)
(*                                                                         *)
(* The file system (sprite file, output directory, icon files) is part of  *)
(* the state and persists from one run of the script to the next; the      *)
(* interpreter state (pc, success_count, sprite, exit status, console) is  *)
(* reset by every run.                                                     *)
(*                                                                         *)
(* Library calls are modelled by what they do:                             *)
(*   Path.mkdir(parents=True, exist_ok=True)  raises only when the path    *)
(*     is a non-directory or the directory cannot be created;              *)
(*   Image.open  is lazy: it identifies the file from its header and       *)
(*     raises for an unidentifiable file; pixel data is decoded by the     *)
(*     first operation that needs it (crop calls load);                    *)
(*   Image.crop  returns an image of the box's size; the part of the box   *)
(*     outside the image is filled with zero pixels, no error is raised;   *)
(*   Image.save  creates or truncates the file and writes the encoding.    *)
(* Console writes are taken to succeed and no signal interrupts the run.   *)
(***************************************************************************)
EXTENDS Integers, Sequences, FiniteSets, TLC

\* ------------------------------------------------------------------ bounds
\* number of successive runs of the script over the same file system
MaxRuns == 2
\* number of sporadic per-icon faults (crop or save raising) a flaky
\* environment may inject, on top of the systematic ones
MaxFaults == 2

\* ------------------------------------------------------- program constants
ICONS ==
  << <<"traditional", 0, 0, 50, 50>>,
     <<"ape", 100, 0, 50, 50>>,
     <<"hq", 200, 0, 50, 50>>,
     <<"multi", 300, 0, 50, 50>>,
     <<"event", 400, 0, 50, 50>>,
     <<"cito", 500, 0, 50, 50>>,
     <<"mega", 600, 0, 50, 50>>,
     <<"giga", 700, 0, 50, 50>>,
     <<"maze", 800, 0, 50, 50>>,
     <<"earth", 900, 0, 50, 50>>,
     <<"virtual", 1000, 0, 50, 50>>,
     <<"webcam", 1100, 0, 50, 50>>,
     <<"locationless", 1200, 0, 50, 50>>,
     <<"mystery", 1300, 0, 50, 50>>,
     <<"letterbox", 1400, 0, 50, 50>>,
     <<"wherigo", 1500, 0, 50, 50>> >>

IconIdx == 1..Len(ICONS)

IconName(i) == ICONS[i][1]

IconNames == {IconName(i) : i \in IconIdx}

\* a file left in the output directory by something else than this script
StaleName == "old-icon"

FileNames == IconNames \cup {StaleName}

\* --------------------------------------------------------------- variables
VARIABLES
  pil,            \* environment: `from PIL import Image` succeeds
  spriteFile,     \* file system: the file at SPRITE_PATH
  outDir,         \* file system: what is at OUTPUT_DIR: "absent", "dir", "file"
  files,          \* file system: OUTPUT_DIR/<name>.png, by name
  disk,           \* environment: "ok" or "readonly" (no create, no write)
  flaky,          \* environment: single crops and saves may fail sporadically
  faults,         \* sporadic faults injected so far
  run,            \* number of the current run of the script
  pc,             \* position of the run
  idx,            \* position of the for loop in ICONS
  sprite,         \* the Image returned by Image.open
  success_count,
  exit_status,    \* <<>> while running, <<code>> once the process has exited
  out,            \* console lines of this run
  io,             \* file-system calls of this run, in order (history)
  prev            \* the output directory when this run started and the
                  \* outcome of the run before it (history)

vars == <<pil, spriteFile, outDir, files, disk, flaky, faults, run, pc, idx, sprite,
          success_count, exit_status, out, io, prev>>

fsVars == <<spriteFile, outDir, files>>
envVars == <<pil, disk, flaky>>

\* ------------------------------------------------------------------ images
NoImage == [width |-> 0, height |-> 0, left |-> 0, upper |-> 0, srcw |-> 0, srch |-> 0]

\* the file at SPRITE_PATH
SpriteMissing == [kind |-> "missing", w |-> 0, h |-> 0]
\* a sheet of exactly the size ICONS needs, a larger one, one that cuts the
\* last icon in two, one that ends before the last icon, one too low for all
SpriteSizes == { <<1550, 50>>, <<1600, 60>>, <<1525, 50>>, <<1500, 50>>, <<1550, 40>> }
\* "png": decodes; "truncated": a PNG header followed by broken pixel data;
\* "corrupt": not identifiable as an image
SpriteFiles ==
  {SpriteMissing, [kind |-> "corrupt", w |-> 0, h |-> 0],
   [kind |-> "truncated", w |-> 1550, h |-> 50]}
    \cup {[kind |-> "png", w |-> s[1], h |-> s[2]] : s \in SpriteSizes}

\* pixel (px, py) of the sprite sheet: every pixel of the sheet is its own value
SrcPixel(px, py) == <<px, py>>
ZeroPixel == <<0 - 1, 0 - 1>>

\* pixel (i, j) of an image cut out of the sprite
PixelAt(img, i, j) ==
  LET px == img.left + i
      py == img.upper + j
  IN  IF 0 <= px /\ px < img.srcw /\ 0 <= py /\ py < img.srch
        THEN SrcPixel(px, py)
        ELSE ZeroPixel

FlakySprite == [kind |-> "png", w |-> 1525, h |-> 50]

\* the Image object held by `sprite`; loadable: its pixel data decodes
NoSprite == [w |-> 0, h |-> 0, loadable |-> FALSE]

\* files of the output directory
NoFile == [kind |-> "none", img |-> NoImage]
StaleFile == [kind |-> "stale", img |-> NoImage]
PartialFile == [kind |-> "partial", img |-> NoImage]
PngFile(img) == [kind |-> "png", img |-> img]

NoFiles == [n \in FileNames |-> NoFile]

\* ---------------------------------------------------------------- console
\* one printed line: its kind, the icon it names, the numbers it shows
Msg(tag, name, n, m) == [tag |-> tag, name |-> name, n |-> n, m |-> m]

\* one file-system or imaging call: which, on which icon, whether it returned
Ev(op, name, ok) == [op |-> op, name |-> name, ok |-> ok]

\* ---------------------------------------------------------------- Init
Init ==
  /\ pil \in BOOLEAN
  /\ spriteFile \in SpriteFiles
  /\ outDir \in {"absent", "dir", "file"}
  /\ files \in IF outDir = "dir"
                 THEN {NoFiles, [NoFiles EXCEPT ![StaleName] = StaleFile,
                                                ![IconName(1)] = StaleFile]}
                 ELSE {NoFiles}
  /\ disk \in {"ok", "readonly"}
  /\ flaky \in BOOLEAN
  \* sporadic faults are explored on the sheet that cuts the last icon in two
  /\ flaky => spriteFile = FlakySprite
  /\ faults = 0
  /\ run = 1
  /\ pc = "import"
  /\ idx = 1
  /\ sprite = NoSprite
  /\ success_count = 0
  /\ exit_status = <<>>
  /\ out = <<>>
  /\ io = <<>>
  /\ prev = [dir |-> outDir, files |-> files, exit |-> <<>>, count |-> 0]

\* ------------------------------------------------------- library behaviour
\* SPRITE_PATH.exists()
Exists(file) == file.kind # "missing"

\* whether the box lies inside an image of w x h pixels
InBounds(box, w, h) ==
  /\ 0 <= box[1] /\ box[1] <= box[3] /\ box[3] <= w
  /\ 0 <= box[2] /\ box[2] <= box[4] /\ box[4] <= h

\* variant: mkdir without exist_ok, an existing directory raises
Mkdir_NoExistOk(dir, dsk) ==
  IF dir = "absent" /\ dsk # "readonly"
    THEN [raised |-> FALSE, dir |-> "dir"]
    ELSE [raised |-> TRUE, dir |-> dir]

\* OUTPUT_DIR.mkdir(parents=True, exist_ok=True): what is at the path
\* afterwards and whether the call raised.  An existing directory is
\* accepted; a non-directory at the path raises FileExistsError; a missing
\* directory is created unless the file system refuses.
Mkdir(dir, dsk) ==
  CASE dir = "dir"  -> [raised |-> FALSE, dir |-> "dir"]
    [] dir = "file" -> [raised |-> TRUE, dir |-> "file"]
    [] OTHER        -> IF dsk = "readonly"
                         THEN [raised |-> TRUE, dir |-> "absent"]
                         ELSE [raised |-> FALSE, dir |-> "dir"]

\* Image.open(SPRITE_PATH) raises when the file cannot be identified
OpenRaises(file) == file.kind \in {"missing", "corrupt"}

\* Image.open(SPRITE_PATH): the header gives the size, the data is not read
ImageOpen(file) == [w |-> file.w, h |-> file.h, loadable |-> file.kind = "png"]

\* variant: right and lower edge taken as inclusive
Box_Inclusive(icon) ==
  <<icon[2], icon[3], icon[2] + icon[4] - 1, icon[3] + icon[5] - 1>>

\* (x, y, x + w, y + h)
Box(icon) == <<icon[2], icon[3], icon[2] + icon[4], icon[3] + icon[5]>>

\* variant: a crop that rejects a box reaching outside the image
CropRaises_BoundsChecked(sp, box) == ~sp.loadable \/ ~InBounds(box, sp.w, sp.h)

\* sprite.crop(box) raises when the pixel data cannot be loaded
CropRaises(sp, box) == ~sp.loadable

\* sprite.crop(box): box[3] and box[4] are exclusive
Crop(sp, box) ==
  [width |-> box[3] - box[1], height |-> box[4] - box[2],
   left |-> box[1], upper |-> box[2], srcw |-> sp.w, srch |-> sp.h]

\* icon.save(output_path, 'PNG') raises when the file cannot be opened for
\* writing
SaveRaises(dir, dsk) == dir # "dir" \/ dsk = "readonly"

\* --------------------------------------------------------------- the run
Exit(code) ==
  /\ exit_status' = <<code>>
  /\ pc' = "done"

\* lines 11-16
ImportPIL ==
  /\ pc = "import"
  /\ IF pil
       THEN /\ pc' = "check"
            /\ UNCHANGED <<exit_status, out>>
       ELSE /\ out' = out \o <<Msg("no_pil", "", 0, 0), Msg("pip_install", "", 0, 0)>>
            /\ Exit(1)
  /\ UNCHANGED <<fsVars, envVars, faults, run, idx, sprite, success_count, io, prev>>

\* variant: the missing sprite is reported but the run goes on
CheckSprite_NoExit ==
  /\ pc = "check"
  /\ io' = Append(io, Ev("exists", "", Exists(spriteFile)))
  /\ out' = out \o <<Msg("banner", "", 0, 0),
                     IF Exists(spriteFile) THEN Msg("sprite_found", "", 0, 0)
                                           ELSE Msg("no_sprite", "", 0, 0)>>
  /\ pc' = "mkdir"
  /\ UNCHANGED exit_status
  /\ UNCHANGED <<fsVars, envVars, faults, run, idx, sprite, success_count, prev>>

\* variant: the output directory is never created
CheckSprite_SkipMkdir ==
  /\ pc = "check"
  /\ io' = Append(io, Ev("exists", "", Exists(spriteFile)))
  /\ IF ~Exists(spriteFile)
       THEN /\ out' = out \o <<Msg("banner", "", 0, 0), Msg("no_sprite", "", 0, 0)>>
            /\ Exit(1)
       ELSE /\ out' = out \o <<Msg("banner", "", 0, 0), Msg("sprite_found", "", 0, 0)>>
            /\ pc' = "open"
            /\ UNCHANGED exit_status
  /\ UNCHANGED <<fsVars, envVars, faults, run, idx, sprite, success_count, prev>>

\* lines 45-55
CheckSprite ==
  /\ pc = "check"
  /\ io' = Append(io, Ev("exists", "", Exists(spriteFile)))
  /\ IF ~Exists(spriteFile)
       THEN /\ out' = out \o <<Msg("banner", "", 0, 0), Msg("no_sprite", "", 0, 0)>>
            /\ Exit(1)
       ELSE /\ out' = out \o <<Msg("banner", "", 0, 0), Msg("sprite_found", "", 0, 0)>>
            /\ pc' = "mkdir"
            /\ UNCHANGED exit_status
  /\ UNCHANGED <<fsVars, envVars, faults, run, idx, sprite, success_count, prev>>

\* lines 57-59; an exception of mkdir is not caught: traceback, status 1
MakeOutputDir ==
  /\ pc = "mkdir"
  /\ LET r == Mkdir(outDir, disk)
     IN  /\ outDir' = r.dir
         /\ io' = Append(io, Ev("mkdir", "", ~r.raised))
         /\ IF r.raised
              THEN /\ out' = Append(out, Msg("traceback", "mkdir", 0, 0))
                   /\ Exit(1)
              ELSE /\ out' = Append(out, Msg("output_dir", "", 0, 0))
                   /\ pc' = "open"
                   /\ UNCHANGED exit_status
  /\ UNCHANGED <<spriteFile, files, envVars, faults, run, idx, sprite, success_count, prev>>

\* lines 61-71
OpenSprite ==
  /\ pc = "open"
  /\ io' = Append(io, Ev("open", "", ~OpenRaises(spriteFile)))
  /\ IF OpenRaises(spriteFile)
       THEN /\ out' = Append(out, Msg("open_error", "", 0, 0))
            /\ Exit(1)
            /\ UNCHANGED <<sprite, success_count>>
       ELSE /\ sprite' = ImageOpen(spriteFile)
            /\ out' = out \o <<Msg("loaded", "", spriteFile.w, spriteFile.h),
                               Msg("cutting", "", 0, 0)>>
            /\ success_count' = 0
            /\ pc' = "loop"
            /\ UNCHANGED exit_status
  /\ UNCHANGED <<fsVars, envVars, faults, run, idx, prev>>

\* variant: the counter counts attempts
NextCount_Always(count, saved) == count + 1

\* line 83: the counter after an icon that was, or was not, saved
NextCount(count, saved) == IF saved THEN count + 1 ELSE count

\* variant: the first failing icon ends the loop
AfterIcon_BreakOnFailure(i, saved) ==
  IF i < Len(ICONS) /\ saved THEN "loop" ELSE "summary"

\* lines 73, 85-86: where the loop goes after icon i, saved or not
AfterIcon(i, saved) == IF i < Len(ICONS) THEN "loop" ELSE "summary"

\* sporadic failures of one icon: none, crop raises, save raises before
\* writing, save raises after the file was created or truncated
FaultChoices == {"none", "crop", "save", "save_partial"}

\* lines 73-86, one iteration of the loop
CutIcon ==
  /\ pc = "loop"
  /\ \E fault \in FaultChoices :
       LET icon == ICONS[idx]
           name == icon[1]
           box == Box(icon)
           cropSys == CropRaises(sprite, box)
           cropFails == cropSys \/ fault = "crop"
           saveSys == SaveRaises(outDir, disk)
           saveFails == saveSys \/ fault \in {"save", "save_partial"}
           saved == ~cropFails /\ ~saveFails
       IN  /\ fault # "none" => flaky /\ faults < MaxFaults
           /\ fault = "crop" => ~cropSys
           /\ fault \in {"save", "save_partial"} => ~cropSys /\ ~saveSys
           /\ faults' = IF fault = "none" THEN faults ELSE faults + 1
           /\ io' = IF cropFails
                      THEN Append(io, Ev("crop", name, FALSE))
                      ELSE io \o <<Ev("crop", name, TRUE), Ev("save", name, ~saveFails)>>
           /\ files' = IF saved
                         THEN [files EXCEPT ![name] = PngFile(Crop(sprite, box))]
                         ELSE IF fault = "save_partial"
                                THEN [files EXCEPT ![name] = PartialFile]
                                ELSE files
           /\ out' = Append(out, IF saved THEN Msg("ok", name, box[1], box[2])
                                          ELSE Msg("err", name, 0, 0))
           /\ success_count' = NextCount(success_count, saved)
           /\ pc' = AfterIcon(idx, saved)
           /\ idx' = idx + 1
  /\ UNCHANGED <<spriteFile, outDir, envVars, run, sprite, exit_status, prev>>

\* variant: one icon is enough
AllSucceeded_AnySucceeded(count) == count > 0

\* line 92
AllSucceeded(count) == count = Len(ICONS)

\* variant: a run with failed icons exits with status 1
Summary_ExitOnFailure ==
  /\ pc = "summary"
  /\ out' = out \o << Msg("done", "", success_count, Len(ICONS)),
                      IF AllSucceeded(success_count)
                        THEN Msg("all_ok", "", 0, 0)
                        ELSE Msg("some_failed", "", Len(ICONS) - success_count, 0),
                      Msg("saved_in", "", 0, 0) >>
  /\ Exit(IF AllSucceeded(success_count) THEN 0 ELSE 1)
  /\ UNCHANGED <<fsVars, envVars, faults, run, idx, sprite, success_count, io, prev>>

\* lines 88-99, then the interpreter exits with status 0
Summary ==
  /\ pc = "summary"
  /\ out' = out \o << Msg("done", "", success_count, Len(ICONS)),
                      IF AllSucceeded(success_count)
                        THEN Msg("all_ok", "", 0, 0)
                        ELSE Msg("some_failed", "", Len(ICONS) - success_count, 0),
                      Msg("saved_in", "", 0, 0) >>
  /\ Exit(0)
  /\ UNCHANGED <<fsVars, envVars, faults, run, idx, sprite, success_count, io, prev>>

\* the script is started again on the file system the last run left
StartRun ==
  /\ pc = "done"
  /\ run < MaxRuns
  /\ run' = run + 1
  /\ pc' = "import"
  /\ idx' = 1
  /\ sprite' = NoSprite
  /\ success_count' = 0
  /\ exit_status' = <<>>
  /\ out' = <<>>
  /\ io' = <<>>
  /\ prev' = [dir |-> outDir, files |-> files, exit |-> exit_status,
              count |-> success_count]
  /\ UNCHANGED <<fsVars, envVars, faults>>

\* one run of the script
Next ==
  \/ ImportPIL
  \/ CheckSprite
  \/ MakeOutputDir
  \/ OpenSprite
  \/ CutIcon
  \/ Summary

Spec == Init /\ [][Next]_vars

\* successive runs of the script in an environment without sporadic faults
InitRerun == Init /\ ~flaky

NextRerun ==
  \/ ImportPIL
  \/ CheckSprite
  \/ MakeOutputDir
  \/ OpenSprite
  \/ CutIcon
  \/ Summary
  \/ StartRun

SpecRerun == InitRerun /\ [][NextRerun]_vars

TypeOK ==
  /\ pil \in BOOLEAN
  /\ outDir \in {"absent", "dir", "file"}
  /\ disk \in {"ok", "readonly"}
  /\ flaky \in BOOLEAN
  /\ faults \in 0..MaxFaults
  /\ run \in 1..MaxRuns
  /\ pc \in {"import", "check", "mkdir", "open", "loop", "summary", "done"}
  /\ idx \in 1..(Len(ICONS) + 1)
  /\ success_count \in 0..Len(ICONS)
  /\ exit_status \in {<<>>, <<0>>, <<1>>}

\* ------------------------------------------------------------ observations
Printed(tag) == \E k \in DOMAIN out : out[k].tag = tag

PrintedFor(tag, name) == \E k \in DOMAIN out : out[k].tag = tag /\ out[k].name = name

Called(op) == \E k \in DOMAIN io : io[k].op = op

\* the icons this run has tried to cut
Tried == {io[k].name : k \in {j \in DOMAIN io : io[j].op = "crop"}}

\* the icons whose file this run has written
Written == {io[k].name : k \in {j \in DOMAIN io : io[j].op = "save" /\ io[j].ok}}

\* the icons this run has tried and not written
Failed == Tried \ Written

\* the rectangle of icon i: left, upper, right and lower edge, the last two
\* exclusive
Rect(i) == <<ICONS[i][2], ICONS[i][3], ICONS[i][2] + ICONS[i][4], ICONS[i][3] + ICONS[i][5]>>

\* the file the run is to produce for icon i from the sprite file
Expected(i) == PngFile(Crop(ImageOpen(spriteFile), Rect(i)))

\* the place of an icon in ICONS
IconPos(name) == CHOOSE i \in IconIdx : IconName(i) = name

ReachedLoop == Printed("cutting")

SummaryDone == pc = "done" /\ Printed("done")

\* nothing but a bad rectangle can go wrong: Pillow is there, the sprite
\* decodes, the directory can be made and written, no sporadic fault
NoIOFailure ==
  /\ pil
  /\ spriteFile.kind = "png"
  /\ disk = "ok"
  /\ prev.dir # "file"
  /\ faults = 0

\* ------------------------------------------------------------------ claims

\* C1: when the sprite file is missing, the run never creates the output
\* directory and never writes an icon file (no mkdir, no crop, no save; the
\* directory and its files stay as they were when the run started), and it
\* ends with a non-zero exit status.
C1_MissingSpriteAborts ==
  ~Exists(spriteFile) =>
     /\ ~Called("mkdir") /\ ~Called("open") /\ ~Called("crop") /\ ~Called("save")
     /\ outDir = prev.dir
     /\ files = prev.files
     /\ pc = "done" => exit_status = <<1>>

C1_Witness ==
  /\ pc = "done" /\ pil /\ ~Exists(spriteFile) /\ Called("exists")
  /\ Printed("no_sprite") /\ outDir = "absent" /\ exit_status = <<1>>

\* C2 as stated: every run that reaches the crop loop exits with status 0,
\* and a non-zero status comes only from missing Pillow, a missing sprite or
\* an undecodable sprite.
C2_Original ==
  pc = "done" =>
     /\ ReachedLoop => exit_status = <<0>>
     /\ exit_status # <<0>> =>
          \/ ~pil
          \/ ~Exists(spriteFile)
          \/ spriteFile.kind \in {"corrupt", "truncated"}

\* C2 as amended: every run that reaches the crop loop exits with status 0,
\* whatever number of icons fail; a non-zero status comes only from a
\* failure before the loop: missing Pillow, missing sprite, mkdir raising
\* (uncaught), or Image.open raising.
C2_ExitStatus ==
  pc = "done" =>
     /\ exit_status \in {<<0>>, <<1>>}
     /\ ReachedLoop => exit_status = <<0>> /\ Printed("done")
     /\ exit_status # <<0>> =>
          /\ ~ReachedLoop
          /\ \/ ~pil /\ Printed("no_pil")
             \/ pil /\ ~Exists(spriteFile) /\ Printed("no_sprite")
             \/ \E k \in DOMAIN io : io[k].op = "mkdir" /\ ~io[k].ok
             \/ /\ \E k \in DOMAIN io : io[k].op = "open" /\ ~io[k].ok
                /\ Printed("open_error")

C2_Witness ==
  /\ pc = "done" /\ exit_status = <<0>> /\ success_count = 0
  /\ \A n \in IconNames : PrintedFor("err", n)

\* C3: a failing icon never ends the loop and never changes another icon:
\* while the loop runs, exactly the icons before idx have been tried; at the
\* summary every icon has been tried, every icon that did not fail has its
\* file <name>.png holding its crop and its confirmation line, and the
\* counter is the number of icons that did not fail.
C3_FailuresIsolated ==
  /\ pc = "loop" => Tried = {IconName(i) : i \in 1..(idx - 1)}
  /\ (pc = "summary" \/ (pc = "done" /\ ReachedLoop)) =>
        LET failed == Failed
        IN  /\ Tried = IconNames
            /\ \A i \in IconIdx :
                  IconName(i) \notin failed =>
                     /\ files[IconName(i)] = Expected(i)
                     /\ PrintedFor("ok", IconName(i))
            /\ success_count = Len(ICONS) - Cardinality(failed)
  /\ (pc = "done" /\ ReachedLoop) => Printed("done")

C3_Witness ==
  /\ pc = "done" /\ faults = 2 /\ success_count = 14
  /\ Failed = {"traditional", "maze"}
  /\ files["wherigo"] = Expected(16)

\* C4: the summary shows succeeded and total with succeeded <= total = 16;
\* the "all succeeded" line is printed exactly when succeeded = total, and
\* otherwise the "some failed" line with total - succeeded.
C4_SummaryCounts ==
  /\ success_count <= Len(ICONS)
  /\ SummaryDone =>
       /\ Len(ICONS) = 16
       /\ \E k \in DOMAIN out : out[k] = Msg("done", "", success_count, 16)
       /\ Printed("all_ok") <=> success_count = 16
       /\ Printed("some_failed") <=> success_count < 16
       /\ \A k \in DOMAIN out : out[k].tag = "some_failed" => out[k].n = 16 - success_count

C4_Witness ==
  /\ SummaryDone /\ success_count = 14
  /\ \E k \in DOMAIN out : out[k] = Msg("some_failed", "", 2, 0)
  /\ ~Printed("all_ok")

\* C5: with a decodable sprite of at least 1550 x 50 and no I/O failure the
\* run writes exactly 16 files, one per descriptor, under 16 distinct names;
\* file <name>.png is width x height and its pixel (dx, dy) is the sprite's
\* pixel (x + dx, y + dy); every rectangle lies inside 1550 x 50.
C5_AllIconsCut ==
  (pc = "done" /\ NoIOFailure /\ spriteFile.w >= 1550 /\ spriteFile.h >= 50) =>
     /\ exit_status = <<0>>
     /\ Cardinality(IconNames) = 16
     /\ Written = IconNames
     /\ Cardinality({k \in DOMAIN io : io[k].op = "save"}) = 16
     /\ \A i \in IconIdx :
          LET f == files[IconName(i)]
              x == ICONS[i][2]
              y == ICONS[i][3]
              w == ICONS[i][4]
              h == ICONS[i][5]
          IN  /\ f.kind = "png"
              /\ f.img.width = w /\ f.img.height = h
              /\ \A dx \in 0..(w - 1), dy \in 0..(h - 1) :
                   PixelAt(f.img, dx, dy) = SrcPixel(x + dx, y + dy)
              /\ x >= 0 /\ y >= 0 /\ x + w <= 1550 /\ y + h <= 50

C5_Witness ==
  /\ pc = "done" /\ NoIOFailure /\ spriteFile.w = 1600 /\ spriteFile.h = 60
  /\ success_count = 16
  /\ files["wherigo"].kind = "png"
  /\ PixelAt(files["wherigo"].img, 49, 49) = SrcPixel(1549, 49)

\* C6: a run that follows a run in which all 16 icons were written does not
\* fail on the existing directory or files: it exits with status 0, saves
\* every icon again, and leaves every file of the directory as the run
\* before left it.
C6_RerunIdempotent ==
  (run >= 2 /\ pc = "done" /\ prev.exit = <<0>> /\ prev.count = Len(ICONS)) =>
     /\ exit_status = <<0>>
     /\ success_count = Len(ICONS)
     /\ Written = IconNames
     /\ prev.dir = "dir" /\ outDir = "dir"
     /\ files = prev.files
     /\ \A i \in IconIdx : files[IconName(i)] = Expected(i)

C6_Witness ==
  /\ run = 2 /\ pc = "done" /\ prev.exit = <<0>> /\ prev.count = 16
  /\ success_count = 16 /\ exit_status = <<0>>
  /\ files[StaleName] = StaleFile
  /\ files["traditional"] = Expected(1)

\* C7 as stated: when the sprite file exists and cannot be decoded (not an
\* image, or broken pixel data), no crop is attempted, no icon file is
\* written, no summary is printed and the run ends with a non-zero status.
C7_Original ==
  (Exists(spriteFile) /\ spriteFile.kind \in {"corrupt", "truncated"}) =>
     /\ ~Called("crop") /\ ~Called("save")
     /\ files = prev.files
     /\ ~Printed("done")
     /\ pc = "done" => exit_status = <<1>>

\* C8 as stated: an icon whose rectangle reaches outside the decoded sprite
\* fails at crop time: its error line is printed and it is not counted; the
\* other icons are written and the run exits with status 0.
C8_Original ==
  (pc = "done" /\ NoIOFailure) =>
     /\ exit_status = <<0>>
     /\ \A i \in IconIdx :
          IF InBounds(Rect(i), spriteFile.w, spriteFile.h)
            THEN IconName(i) \in Written
            ELSE PrintedFor("err", IconName(i)) /\ IconName(i) \notin Written
     /\ success_count =
          Cardinality({i \in IconIdx : InBounds(Rect(i), spriteFile.w, spriteFile.h)})

\* C8 as amended: an icon whose rectangle reaches outside the decoded sprite
\* does not fail: with no I/O failure it is written at its full width x
\* height, the pixels outside the sprite being zero and the others the
\* sprite's, its confirmation line is printed and it is counted; every
\* other icon is written too and the run exits with status 0.
C8_OutOfBoundsPadded ==
  (pc = "done" /\ NoIOFailure) =>
     /\ exit_status = <<0>>
     /\ success_count = Len(ICONS)
     /\ ~Printed("err")
     /\ Written = IconNames
     /\ \A i \in IconIdx :
          ~InBounds(Rect(i), spriteFile.w, spriteFile.h) =>
             LET f == files[IconName(i)]
                 x == ICONS[i][2]
                 y == ICONS[i][3]
             IN  /\ f.kind = "png"
                 /\ f.img.width = ICONS[i][4] /\ f.img.height = ICONS[i][5]
                 /\ PrintedFor("ok", IconName(i))
                 /\ \A dx \in 0..(ICONS[i][4] - 1), dy \in 0..(ICONS[i][5] - 1) :
                      PixelAt(f.img, dx, dy) =
                        IF x + dx < spriteFile.w /\ y + dy < spriteFile.h
                          THEN SrcPixel(x + dx, y + dy)
                          ELSE ZeroPixel

C8_Witness ==
  /\ pc = "done" /\ NoIOFailure /\ spriteFile.w = 1525 /\ spriteFile.h = 50
  /\ success_count = 16 /\ exit_status = <<0>>
  /\ PrintedFor("ok", "wherigo")
  /\ PixelAt(files["wherigo"].img, 24, 0) = SrcPixel(1524, 0)
  /\ PixelAt(files["wherigo"].img, 25, 0) = ZeroPixel

\* whether call e can directly follow call d in a run
Follows(d, e) ==
  CASE e.op = "mkdir" -> d.op = "exists" /\ d.ok
    [] e.op = "open"  -> d.op = "mkdir" /\ d.ok
    [] e.op = "crop"  ->
         IF e.name = IconName(1)
           THEN d.op = "open" /\ d.ok
           ELSE /\ d.op \in {"crop", "save"}
                /\ d.op = "crop" => ~d.ok
                /\ IconPos(e.name) = IconPos(d.name) + 1
    [] e.op = "save"  -> d.op = "crop" /\ d.ok /\ d.name = e.name
    [] OTHER -> FALSE

\* C9: the steps of a run come in one order.  Nothing touches the file
\* system before the Pillow check has passed; the first call is the
\* existence check, mkdir follows it, Image.open follows a mkdir that
\* returned, the crop of the first icon follows an open that returned, the
\* crop of icon i + 1 follows the crop or save of icon i, a save follows the
\* crop of its icon; a file is only written into an existing directory; the
\* summary is printed after all 16 icons were tried.
C9_FixedOrder ==
  /\ (pc = "import" \/ ~pil) => io = <<>>
  /\ io # <<>> => io[1].op = "exists"
  /\ \A k \in 2..Len(io) : Follows(io[k - 1], io[k])
  /\ \A k \in DOMAIN io : (io[k].op = "save" /\ io[k].ok) => outDir = "dir"
  /\ Written # {} => outDir = "dir"
  /\ Printed("done") => Tried = IconNames
  /\ \A k \in DOMAIN out :
       out[k].tag = "done" => \A j \in DOMAIN out : out[j].tag \in {"ok", "err"} => j < k

C9_Witness ==
  /\ pc = "done" /\ prev.dir = "absent" /\ outDir = "dir"
  /\ Len(io) = 35
  /\ io[1].op = "exists" /\ io[2].op = "mkdir" /\ io[3].op = "open"
  /\ io[4] = Ev("crop", "traditional", TRUE) /\ io[35] = Ev("save", "wherigo", TRUE)

\* C10: a run is one pass without retries: no icon is cropped or saved
\* twice, at the summary every icon has been cropped exactly once, and the
\* counter (and the number the summary prints) is the number of icons whose
\* file this run wrote: one per save that returned, none for an icon whose
\* crop or save raised.
C10_OnePassExactCount ==
  /\ Cardinality({k \in DOMAIN io : io[k].op = "crop"}) = Cardinality(Tried)
  /\ Cardinality({k \in DOMAIN io : io[k].op = "save"})
       = Cardinality({io[k].name : k \in {j \in DOMAIN io : io[j].op = "save"}})
  /\ Cardinality({k \in DOMAIN io : io[k].op \in {"exists", "mkdir", "open"}}) <= 3
  /\ pc \in {"loop", "summary"} \/ (pc = "done" /\ ReachedLoop) =>
       LET written == Written
           oks == {out[k].name : k \in {j \in DOMAIN out : out[j].tag = "ok"}}
           errs == {out[k].name : k \in {j \in DOMAIN out : out[j].tag = "err"}}
       IN  /\ success_count = Cardinality({k \in DOMAIN io : io[k].op = "save" /\ io[k].ok})
           /\ success_count = Cardinality(written)
           /\ \A n \in written : files[n].kind = "png"
           /\ oks = written
           /\ errs = Tried \ written
  /\ SummaryDone =>
       /\ Tried = IconNames
       /\ Cardinality({k \in DOMAIN io : io[k].op = "crop"}) = Len(ICONS)
       /\ \E k \in DOMAIN out : out[k].tag = "done" /\ out[k].n = Cardinality(Written)

C10_Witness ==
  /\ SummaryDone /\ success_count = 15 /\ faults = 1
  /\ files["ape"] = PartialFile
  /\ Written = IconNames \ {"ape"}

=============================================================================
